---- MODULE Spec2Model ----
(***************************************************************************)
(* Model of the propagation steering code of Acts::propagation::Propagator *)
(* (Core/include/Acts/Propagator/Propagator.hpp).                          *)
(*                                                                         *)
(* A call of propagate() is a small sequential process: every statement of *)
(* propagate() and of the private propagate_() is one action, and the      *)
(* position of the call in that code is pc[c].  The stepping               *)
(* implementation (Impl), the user's action list and abort list and the    *)
(* two internal aborters are collaborators that are not part of this       *)
(* header; they are modelled from their documented contracts.  Lengths are *)
(* integers (one unit is the smallest length the model tells apart).       *)
(***************************************************************************)
EXTENDS Integers, Sequences, FiniteSets, TLC

VARIABLES
    call,      \* per call: the arguments of propagate() (overload, start, target, options, impl)
    pc,        \* per call: the position in propagate()/propagate_()
    result,    \* per call: the Result object
    cache,     \* per call: the stepper cache
    aborters,  \* per call: the configured internal abort list
    ret,       \* per call: the Status returned by propagate_()
    obs,       \* per call: what the collaborators saw (invocation log)
    m_binUtility,      \* per LayerMaterialRecord: the bin utility (nullptr or <<bu>>)
    m_materialMatrix,  \* per LayerMaterialRecord: the rows of pointers to cells
    m_matStepsAndAssignedPos,  \* per LayerMaterialRecord: the recorded steps
    heap,      \* the MaterialProperties objects made with new, by address
    entriesKept,  \* MaterialProperties: whether setMaterial(m, t) keeps the entries
    lmrPc,     \* per LayerMaterialRecord: its life and the position in averageMaterial()
    lmrLoop,   \* the local variables of the averageMaterial() call
    lmrObs     \* LayerMaterialRecord: what was asked of the records (ghost log)

\* the state of the propagation calls, and of the LayerMaterialRecord objects
callVars == <<call, pc, result, cache, aborters, ret, obs>>
recordVars == <<m_binUtility, m_materialMatrix, m_matStepsAndAssignedPos, heap,
                entriesKept, lmrPc, lmrLoop, lmrObs>>

vars == <<call, pc, result, cache, aborters, ret, obs,
          m_binUtility, m_materialMatrix, m_matStepsAndAssignedPos, heap,
          entriesKept, lmrPc, lmrLoop, lmrObs>>

----------------------------------------------------------------------------
(* Bounds of the model *)

\* largest max_steps an Options object is given
MaxSteps == 3
\* largest magnitude a single step() of the free stepper advances
MaxAdvance == 2

(* Program constants *)

\* stand-in for std::numeric_limits<double>::max(), the default max_path_length
PathMax == 1000

Abs(x) == IF x < 0 THEN -x ELSE x

----------------------------------------------------------------------------
(* enum Direction, enum struct Status *)

backward == -1
forward == 1
Direction == {backward, forward}

Status == {"SUCCESS", "FAILURE", "UNSET", "IN_PROGRESS", "WRONG_DIRECTION"}

\* std::unique_ptr: <<>> is nullptr, <<v>> owns v
nullptr == <<>>

\* a Result whose constructor ignores its argument and keeps the default
ResultCtorDefaultStatus(s) ==
    [endParameters |-> nullptr, status |-> "UNSET", steps |-> 0, pathLength |-> 0,
     ext |-> 0]

\* Result(Status s = Status::UNSET): the member initialisers of struct Result
\* (ext is the Extendable<ExResult...> base: the slot of a counting action)
ResultCtor(s) ==
    [endParameters |-> nullptr, status |-> s, steps |-> 0, pathLength |-> 0,
     ext |-> 0]

\* Result::operator bool
OperatorBool(r) == r.endParameters # nullptr /\ r.status = "SUCCESS"

----------------------------------------------------------------------------
(* Inputs of a call *)

\* the Options objects the model passes in
OptionsSet ==
    [direction        : Direction,
     max_steps        : 0..MaxSteps,
     target_tolerance : {1, 3},
     max_step_size    : {2, 5},
     max_path_length  : {-3, 1, 3, 5, 10, PathMax},
     user_aborters    : BOOLEAN]

\* positions of the target surface along the track (start is at 0)
Targets == {-2, 0, 3}

\* the stepper: fixedLen = 0 is a stepper free to advance any length of
\* Advances each step, fixedLen = L > 0 advances L * direction each step
ImplSet == [fixedLen : {0, 1, 2, 4}]

\* the arguments of a call; with_actions: whether the ActionList holds the
\* counting action or is the empty ActionList<>

CallSet ==
    [overload : {"plain"}, target : {0}, options : OptionsSet, impl : ImplSet,
     with_actions : BOOLEAN]
    \cup
    [overload : {"target"}, target : Targets, options : OptionsSet, impl : ImplSet,
     with_actions : BOOLEAN]

----------------------------------------------------------------------------
(* Collaborators, modelled from their contracts *)

\* cache_type cache(start): the start state is at position 0 along the track
CacheCtor(step_size) == [pos |-> 0, step_size |-> step_size]

\* the signed lengths one Impl::step(cache) may return
Advances(c) ==
    IF call[c].impl.fixedLen > 0
    THEN {call[c].impl.fixedLen * call[c].options.direction}
    ELSE {call[c].options.direction * k : k \in 1..MaxAdvance}
         \cup {-call[c].options.direction}

\* Impl::step(cache): advances the cache by len and returns len
ImplStep(ch, len) == [ch EXCEPT !.pos = @ + len]

\* Impl::convert(cache) and Impl::convert(cache, target)
ImplConvert(ch) == [pos |-> ch.pos, bound |-> FALSE, surface |-> 0]
ImplConvertTo(ch, target) == [pos |-> ch.pos, bound |-> TRUE, surface |-> target]

\* an action of the ActionList: may shorten the cache's step size to one
\* unit (clamp) and counts its invocations in its slot of the result
ActionCache(ch, clamp) ==
    IF clamp THEN [ch EXCEPT !.step_size = IF @ < 0 THEN -1 ELSE 1] ELSE ch
ActionResult(r) == [r EXCEPT !.ext = @ + 1]

\* detail::path_limit_reached: the accumulated signed path length is within
\* tolerance of the signed limit, or has exceeded it in magnitude
PathLimitReached(ab, r) ==
    \/ Abs(ab.signed_path_limit - r.pathLength) <= ab.path_tolerance
    \/ Abs(r.pathLength) > Abs(ab.signed_path_limit)

\* detail::surface_reached<Surface>: the signed distance of the cache's state
\* to the target surface is within tolerance, and the approach is consistent
\* with the direction: the surface is not behind the state in the direction
\* of travel
SurfaceReached(ab, ch) ==
    LET distance == ab.surface - ch.pos
    IN  /\ Abs(distance) <= ab.tolerance
        /\ distance * ab.direction >= 0

\* AbortList<path_limit_reached> and AbortList<target_reached,
\* path_limit_reached>: the aborters in list order, OR'd
InternalStopConditions(ab, r, ch) ==
    \/ ab.has_target /\ SurfaceReached(ab, ch)
    \/ PathLimitReached(ab, r)

\* the outcomes options.stop_conditions(result, cache) may have: the empty
\* AbortList<> is false, a user's aborter returns what it decides
StopConditions(o) == IF o.user_aborters THEN BOOLEAN ELSE {FALSE}

----------------------------------------------------------------------------
(* propagate(): set-up *)

\* the limit without std::abs
SignedPathLimitNoAbs(o) == o.max_path_length * o.direction

\* the limit without the sign of the direction
SignedPathLimitUnsigned(o) == Abs(o.max_path_length)

\* std::abs(options.max_path_length) * options.direction
SignedPathLimit(o) == Abs(o.max_path_length) * o.direction

\* the path limit checked without any tolerance
PathToleranceIgnored(o) == 0

\* path_limit_abort.tolerance = options.target_tolerance
PathTolerance(o) == o.target_tolerance

\* options.direction * options.max_step_size
InitialStepSize(o) == o.direction * o.max_step_size

\* AbortList<path_limit_reached> internal_aborters, configured
PlainAborters(o) ==
    [has_target |-> FALSE, surface |-> 0, direction |-> forward, tolerance |-> 0,
     signed_path_limit |-> SignedPathLimit(o),
     path_tolerance |-> PathTolerance(o)]

\* AbortList<target_reached, path_limit_reached> internal_aborters, configured
TargetAborters(o, target) ==
    [has_target |-> TRUE, surface |-> target, direction |-> o.direction,
     tolerance |-> o.target_tolerance,
     signed_path_limit |-> SignedPathLimit(o),
     path_tolerance |-> PathTolerance(o)]

\* the internal abort list before it is configured
NoAborters ==
    [has_target |-> FALSE, surface |-> 0, direction |-> forward, tolerance |-> 0,
     signed_path_limit |-> PathMax, path_tolerance |-> 0]

----------------------------------------------------------------------------
(* propagate_(): the statements of the loop *)

\* if (internal_stop_conditions(result, cache)) return Status::FAILURE;
PreCheckStatus == "FAILURE"

\* the loop bounded by the step size limit instead of the step limit
LoopConditionWrongField(r, o) == r.steps < o.max_step_size

\* the loop condition off by one
LoopConditionInclusive(r, o) == r.steps <= o.max_steps

\* for (; result.steps < options.max_steps; ...)
LoopCondition(r, o) == r.steps < o.max_steps

\* the path length assigned instead of accumulated
AddPathAssigned(r, len) == [r EXCEPT !.pathLength = len]

\* result.pathLength += m_impl.step(cache);
AddPath(r, len) == [r EXCEPT !.pathLength = @ + len]

\* the break branch without its ++result.steps
CountBreakStepForgotten(r) == r

\* ++result.steps (in the break branch)
CountBreakStep(r) == [r EXCEPT !.steps = @ + 1]

\* the for statement without its increment
CountLoopStepForgotten(r) == r

\* the loop increment counting every step twice
CountLoopStepTwice(r) == [r EXCEPT !.steps = @ + 2]

\* ++result.steps (the increment of the for statement)
CountLoopStep(r) == [r EXCEPT !.steps = @ + 1]

\* the finished loop reported as FAILURE
LoopExitStatusFailure == "FAILURE"

\* the finished loop reported as SUCCESS by propagate_() itself
LoopExitStatusSuccess == "SUCCESS"

\* return Status::IN_PROGRESS;
LoopExitStatus == "IN_PROGRESS"

----------------------------------------------------------------------------
(* propagate(): after propagate_() *)

\* conversion for every outcome but SUCCESS
NeedsConversionUnlessSuccess(status) == status # "SUCCESS"

\* if (propagate_(...) != Status::IN_PROGRESS) { } else { convert; SUCCESS }
NeedsConversion(status) == status = "IN_PROGRESS"

\* the converted parameters not stored in the result
StoreEndParametersForgotten(r, value) == r

\* result.endParameters = std::make_unique<...>(m_impl.convert(...));
StoreEndParameters(r, value) == [r EXCEPT !.endParameters = <<value>>]

\* result.status = Status::SUCCESS;
MarkSuccess(r) == [r EXCEPT !.status = "SUCCESS"]

----------------------------------------------------------------------------
(* Observation of the collaborators' invocations *)

\* stepLog: the values step() returned, in order; events: the collaborators
\* invoked, in order; ended: what ended the loop
NoObs == [stepLog |-> <<>>, events |-> <<>>, ended |-> "running"]

Saw(o, ev) == [o EXCEPT !.events = Append(@, ev)]

Count(ev, name) == Cardinality({i \in DOMAIN ev : ev[i] = name})

RECURSIVE SumSeq(_)
SumSeq(s) == IF s = <<>> THEN 0 ELSE s[1] + SumSeq(Tail(s))

----------------------------------------------------------------------------
(* LayerMaterialRecord: the objects of the program *)

\* the LayerMaterialRecord objects the program has room for
Records == {1, 2}

\* the ghost log of the records: want is the heap as it would be had every
\* addLayerMaterialProperties() written the cell [bin(pos,1)][bin(pos,0)],
\* visits the cells the last averageMaterial() accessed, in order, thrown the
\* std::out_of_range thrown, adds and averages the calls made
NoRecordObs ==
    [want |-> <<>>, visits |-> <<>>, thrown |-> 0, adds |-> 0, averages |-> 0]

\* the local variables of averageMaterial() before its first call
NoLoop == [bins0 |-> 0, bins1 |-> 0, bin0 |-> 0, bin1 |-> 0, done |-> FALSE]

\* no LayerMaterialRecord is constructed yet
NoRecords ==
    /\ m_binUtility = [r \in Records |-> nullptr]
    /\ m_materialMatrix = [r \in Records |-> <<>>]
    /\ m_matStepsAndAssignedPos = [r \in Records |-> <<>>]
    /\ heap = <<>>
    /\ lmrPc = [r \in Records |-> "none"]
    /\ lmrLoop = NoLoop
    /\ lmrObs = NoRecordObs

----------------------------------------------------------------------------
(* The state machine *)

Init ==
    /\ call \in [{1} -> CallSet]
    /\ pc = [c \in {1} |-> "entry"]
    /\ result = [c \in {1} |-> ResultCtor("UNSET")]
    /\ cache = [c \in {1} |-> CacheCtor(0)]
    /\ aborters = [c \in {1} |-> NoAborters]
    /\ ret = [c \in {1} |-> "UNSET"]
    /\ obs = [c \in {1} |-> NoObs]
    /\ NoRecords
    /\ entriesKept = FALSE

\* propagate(start, options), lines 258-272: result, cache, internal aborters
BeginPlain(c) ==
    /\ pc[c] = "entry"
    /\ call[c].overload = "plain"
    /\ result' = [result EXCEPT ![c] = ResultCtor("IN_PROGRESS")]
    /\ cache' = [cache EXCEPT ![c] = CacheCtor(InitialStepSize(call[c].options))]
    /\ aborters' = [aborters EXCEPT ![c] = PlainAborters(call[c].options)]
    /\ pc' = [pc EXCEPT ![c] = "precheck"]
    /\ UNCHANGED <<call, ret, obs>>
    /\ UNCHANGED recordVars

\* propagate(start, target, options), lines 323-350
BeginTarget(c) ==
    /\ pc[c] = "entry"
    /\ call[c].overload = "target"
    /\ cache' = [cache EXCEPT ![c] = CacheCtor(InitialStepSize(call[c].options))]
    /\ result' = [result EXCEPT ![c] = ResultCtor("IN_PROGRESS")]
    /\ aborters' = [aborters EXCEPT ![c] =
                        TargetAborters(call[c].options, call[c].target)]
    /\ pc' = [pc EXCEPT ![c] = "precheck"]
    /\ UNCHANGED <<call, ret, obs>>
    /\ UNCHANGED recordVars

\* propagate_(), line 203: the check before the first step
PreCheck(c) ==
    /\ pc[c] = "precheck"
    /\ IF InternalStopConditions(aborters[c], result[c], cache[c])
       THEN /\ ret' = [ret EXCEPT ![c] = PreCheckStatus]
            /\ obs' = [obs EXCEPT ![c] =
                           [Saw(@, "internal") EXCEPT !.ended = "precheck"]]
            /\ pc' = [pc EXCEPT ![c] = "after"]
       ELSE /\ pc' = [pc EXCEPT ![c] = "loop"]
            /\ obs' = [obs EXCEPT ![c] = Saw(@, "internal")]
            /\ UNCHANGED ret
    /\ UNCHANGED <<call, result, cache, aborters>>
    /\ UNCHANGED recordVars

\* propagate_(), line 206: the loop condition; line 219 when it is false
LoopTest(c) ==
    /\ pc[c] = "loop"
    /\ IF LoopCondition(result[c], call[c].options)
       THEN /\ pc' = [pc EXCEPT ![c] = "step"]
            /\ UNCHANGED ret
            /\ UNCHANGED obs
       ELSE /\ ret' = [ret EXCEPT ![c] = LoopExitStatus]
            /\ obs' = [obs EXCEPT ![c].ended = "max_steps"]
            /\ pc' = [pc EXCEPT ![c] = "after"]
    /\ UNCHANGED <<call, result, cache, aborters>>
    /\ UNCHANGED recordVars

\* the stepper cache kept in the Propagator and shared by all calls
StepSharedCache(c) ==
    /\ pc[c] = "step"
    /\ \E len \in Advances(c) :
        /\ cache' = [d \in DOMAIN cache |-> ImplStep(cache[d], len)]
        /\ result' = [result EXCEPT ![c] = AddPath(@, len)]
        /\ obs' = [obs EXCEPT ![c] =
                       [Saw(@, "step") EXCEPT !.stepLog = Append(@, len)]]
    /\ pc' = [pc EXCEPT ![c] = "actions"]
    /\ UNCHANGED <<call, aborters, ret>>
    /\ UNCHANGED recordVars

\* propagate_(), line 208
Step(c) ==
    /\ pc[c] = "step"
    /\ \E len \in Advances(c) :
        /\ cache' = [cache EXCEPT ![c] = ImplStep(@, len)]
        /\ result' = [result EXCEPT ![c] = AddPath(@, len)]
        /\ obs' = [obs EXCEPT ![c] =
                       [Saw(@, "step") EXCEPT !.stepLog = Append(@, len)]]
    /\ pc' = [pc EXCEPT ![c] = "actions"]
    /\ UNCHANGED <<call, aborters, ret>>
    /\ UNCHANGED recordVars

\* the action list invoked twice in one iteration
ActionsInvokedTwice(c) ==
    /\ pc[c] = "actions"
    /\ IF call[c].with_actions
       THEN \E clamp \in BOOLEAN :
              /\ cache' = [cache EXCEPT ![c] = ActionCache(ActionCache(@, clamp), clamp)]
              /\ result' = [result EXCEPT ![c] = ActionResult(ActionResult(@))]
       ELSE UNCHANGED <<cache, result>>
    /\ obs' = [obs EXCEPT ![c] = Saw(Saw(@, "action"), "action")]
    /\ pc' = [pc EXCEPT ![c] = "user_abort"]
    /\ UNCHANGED <<call, aborters, ret>>
    /\ UNCHANGED recordVars

\* propagate_(), line 210
Actions(c) ==
    /\ pc[c] = "actions"
    /\ IF call[c].with_actions
       THEN \E clamp \in BOOLEAN :
              /\ cache' = [cache EXCEPT ![c] = ActionCache(@, clamp)]
              /\ result' = [result EXCEPT ![c] = ActionResult(@)]
       ELSE UNCHANGED <<cache, result>>
    /\ obs' = [obs EXCEPT ![c] = Saw(@, "action")]
    /\ pc' = [pc EXCEPT ![c] = "user_abort"]
    /\ UNCHANGED <<call, aborters, ret>>
    /\ UNCHANGED recordVars

\* the condition written internal_stop_conditions(...) || stop_conditions(...)
UserAbortInternalFirst(c) ==
    /\ pc[c] = "user_abort"
    /\ IF InternalStopConditions(aborters[c], result[c], cache[c])
       THEN /\ pc' = [pc EXCEPT ![c] = "break"]
            /\ obs' = [obs EXCEPT ![c] =
                           [Saw(@, "internal") EXCEPT !.ended = "internal"]]
       ELSE \E fired \in StopConditions(call[c].options) :
              /\ pc' = [pc EXCEPT ![c] = IF fired THEN "break" ELSE "increment"]
              /\ obs' = [obs EXCEPT ![c] =
                             [Saw(Saw(@, "internal"), "user_abort") EXCEPT
                                 !.ended = IF fired THEN "user" ELSE @]]
    /\ UNCHANGED <<call, result, cache, aborters, ret>>
    /\ UNCHANGED recordVars

\* the condition written with | instead of ||: both lists always evaluated
UserAbortEager(c) ==
    /\ pc[c] = "user_abort"
    /\ \E fired \in StopConditions(call[c].options) :
         LET internal == InternalStopConditions(aborters[c], result[c], cache[c])
         IN  /\ pc' = [pc EXCEPT ![c] =
                           IF fired \/ internal THEN "break" ELSE "increment"]
             /\ obs' = [obs EXCEPT ![c] =
                            [Saw(Saw(@, "user_abort"), "internal") EXCEPT
                                !.ended = IF fired THEN "user"
                                          ELSE IF internal THEN "internal" ELSE @]]
    /\ UNCHANGED <<call, result, cache, aborters, ret>>
    /\ UNCHANGED recordVars

\* propagate_(), line 213: options.stop_conditions(result, cache)
UserAbort(c) ==
    /\ pc[c] = "user_abort"
    /\ \E fired \in StopConditions(call[c].options) :
         /\ pc' = [pc EXCEPT ![c] = IF fired THEN "break" ELSE "internal_abort"]
         /\ obs' = [obs EXCEPT ![c] =
                        [Saw(@, "user_abort") EXCEPT
                            !.ended = IF fired THEN "user" ELSE @]]
    /\ UNCHANGED <<call, result, cache, aborters, ret>>
    /\ UNCHANGED recordVars

\* propagate_(), line 214: || internal_stop_conditions(result, cache)
InternalAbort(c) ==
    /\ pc[c] = "internal_abort"
    /\ LET fired == InternalStopConditions(aborters[c], result[c], cache[c])
       IN  /\ pc' = [pc EXCEPT ![c] = IF fired THEN "break" ELSE "increment"]
           /\ obs' = [obs EXCEPT ![c] =
                          [Saw(@, "internal") EXCEPT
                              !.ended = IF fired THEN "internal" ELSE @]]
    /\ UNCHANGED <<call, result, cache, aborters, ret>>
    /\ UNCHANGED recordVars

\* propagate_(), lines 215-216 and 219: count the step, break, return
Break(c) ==
    /\ pc[c] = "break"
    /\ result' = [result EXCEPT ![c] = CountBreakStep(@)]
    /\ ret' = [ret EXCEPT ![c] = LoopExitStatus]
    /\ pc' = [pc EXCEPT ![c] = "after"]
    /\ UNCHANGED <<call, cache, aborters, obs>>
    /\ UNCHANGED recordVars

\* propagate_(), line 206: the increment of the for statement
Increment(c) ==
    /\ pc[c] = "increment"
    /\ result' = [result EXCEPT ![c] = CountLoopStep(@)]
    /\ pc' = [pc EXCEPT ![c] = "loop"]
    /\ UNCHANGED <<call, cache, aborters, ret, obs>>
    /\ UNCHANGED recordVars

\* the targeted overload converting with convert(cache), without the target
FinishWithoutTarget(c) ==
    /\ pc[c] = "after"
    /\ IF NeedsConversion(ret[c])
       THEN /\ result' = [result EXCEPT ![c] =
                   StoreEndParameters(@, ImplConvert(cache[c]))]
            /\ obs' = [obs EXCEPT ![c] = Saw(@, "convert")]
            /\ pc' = [pc EXCEPT ![c] = "converted"]
       ELSE /\ pc' = [pc EXCEPT ![c] = "returned"]
            /\ UNCHANGED <<result, obs>>
    /\ UNCHANGED <<call, cache, aborters, ret>>
    /\ UNCHANGED recordVars

\* propagate(), lines 275-281 and 353-359: the outcome of propagate_(), and
\* the conversion into the return type; without conversion, the return
Finish(c) ==
    /\ pc[c] = "after"
    /\ IF NeedsConversion(ret[c])
       THEN /\ result' = [result EXCEPT ![c] =
                   StoreEndParameters(@, IF call[c].overload = "target"
                                THEN ImplConvertTo(cache[c], call[c].target)
                                ELSE ImplConvert(cache[c]))]
            /\ obs' = [obs EXCEPT ![c] = Saw(@, "convert")]
            /\ pc' = [pc EXCEPT ![c] = "converted"]
       ELSE /\ pc' = [pc EXCEPT ![c] = "returned"]
            /\ UNCHANGED <<result, obs>>
    /\ UNCHANGED <<call, cache, aborters, ret>>
    /\ UNCHANGED recordVars

\* propagate(), lines 282-285 and 360-362: mark the success and return
Succeed(c) ==
    /\ pc[c] = "converted"
    /\ result' = [result EXCEPT ![c] = MarkSuccess(@)]
    /\ pc' = [pc EXCEPT ![c] = "returned"]
    /\ UNCHANGED <<call, cache, aborters, ret, obs>>
    /\ UNCHANGED recordVars

\* the calls in flight
Calls == DOMAIN pc

Next ==
    \/ \E c \in Calls : BeginPlain(c)
    \/ \E c \in Calls : BeginTarget(c)
    \/ \E c \in Calls : PreCheck(c)
    \/ \E c \in Calls : LoopTest(c)
    \/ \E c \in Calls : Step(c)
    \/ \E c \in Calls : Actions(c)
    \/ \E c \in Calls : UserAbort(c)
    \/ \E c \in Calls : InternalAbort(c)
    \/ \E c \in Calls : Break(c)
    \/ \E c \in Calls : Increment(c)
    \/ \E c \in Calls : Finish(c)
    \/ \E c \in Calls : Succeed(c)

Spec == Init /\ [][Next]_vars

\* a call runs on its thread until it returns: every step(), action and
\* aborter invocation returns, so the call's next statement is always taken
SpecLive == Init /\ [][Next]_vars /\ WF_vars(Next)

\* the calls two threads make concurrently on one Propagator
ConcurrentCallSet ==
    {x \in CallSet :
        /\ x.options.max_steps = 1
        /\ x.options.target_tolerance = 1
        /\ x.options.max_step_size = 2
        /\ x.options.max_path_length = 3
        /\ x.impl.fixedLen = 0
        /\ x.with_actions}

\* two propagate() calls on the same Propagator, interleaved statement by
\* statement
InitConcurrent ==
    /\ call \in [{1, 2} -> ConcurrentCallSet]
    /\ pc = [c \in {1, 2} |-> "entry"]
    /\ result = [c \in {1, 2} |-> ResultCtor("UNSET")]
    /\ cache = [c \in {1, 2} |-> CacheCtor(0)]
    /\ aborters = [c \in {1, 2} |-> NoAborters]
    /\ ret = [c \in {1, 2} |-> "UNSET"]
    /\ obs = [c \in {1, 2} |-> NoObs]
    /\ NoRecords
    /\ entriesKept = FALSE

SpecConcurrent == InitConcurrent /\ [][Next]_vars

----------------------------------------------------------------------------
(* LayerMaterialRecord (Plugins/MaterialPlugins/src/LayerMaterialRecord.cpp) *)

\* largest number of bins a bin utility has along one axis
MaxBins == 2
\* largest number of addLayerMaterialProperties() calls the program makes
MaxAdds == 2
\* largest number of averageMaterial() calls the program makes
MaxAverages == 1

\* the axes of a bin utility
Axes == {0, 1}

\* the BinUtility objects a record is constructed with: bins[k] bins along
\* axis k
BinUtilitySet == [bins : [Axes -> 1..MaxBins]]

\* BinUtility::bins(k) and BinUtility::max(k), the largest bin along axis k
Bins(bu, k) == bu.bins[k]
Max(bu, k) == bu.bins[k] - 1

\* the positions handed to the record: the coordinate along each axis, in
\* bin widths (below zero and above the last bin: outside the bin utility)
Positions == [Axes -> -1..MaxBins]

\* BinUtility::bin(pos, k): the bin along axis k that holds pos, the
\* outermost bin for a position outside
Bin(bu, pos, k) ==
    IF pos[k] < 0 THEN 0
    ELSE IF pos[k] > Max(bu, k) THEN Max(bu, k)
    ELSE pos[k]

\* a float that is not whole: the exact quotient num / den in lowest terms
\* (a whole float has den = 1)
RECURSIVE GCD(_, _)
GCD(a, b) == IF b = 0 THEN a ELSE GCD(b, a % b)

Float(num, den) ==
    LET g == GCD(Abs(num), den)
    IN  [num |-> num \div g, den |-> den \div g]

\* float + float, and float / a count
FloatAdd(x, y) == Float(x.num * y.den + y.num * x.den, x.den * y.den)
FloatDiv(x, n) == Float(x.num, x.den * n)

\* new MaterialProperties(0., 0., 0., 0., 0., 0., 0., 0): of a cell's
\* material the model keeps the thickness and the number of entries (the
\* other sums are stored in, and read from, the same cell)
ZeroMaterial == [thickness |-> Float(0, 1), entries |-> 0]

\* MaterialProperties::setMaterial(material, thickness, entries)
SetMaterial(cell, thickness, entries) ==
    [cell EXCEPT !.thickness = thickness, !.entries = entries]

\* MaterialProperties::addEntry()
AddEntry(cell) == [cell EXCEPT !.entries = @ + 1]

\* the entries a cell has after setMaterial(material, thickness), whose
\* entries argument takes the default declared in MaterialProperties: the
\* count is kept, or reset to that default
DefaultedEntries(cell, kept) == IF kept THEN cell.entries ELSE 1

\* the layerMaterialSteps handed to a record: the thickness of each step
StepsSet == {<<>>, <<1>>, <<1, 2>>}

\* lines 68-84: newThickness, the sum over the steps
NewThickness(steps) == Float(SumSeq(steps), 1)

\* the values the name bin2 may stand for in lines 102-133: the function
\* declares bin0 and bin1 only, so every size_t the model tells apart
Bin2Values == 0..MaxBins

\* the cells made by the constructor, lines 30-32, and the rows of pointers
\* to them, lines 24-34 (base: the cells the heap already holds)
NewCells(bu) == [i \in 1..(Bins(bu, 0) * Bins(bu, 1)) |-> ZeroMaterial]
NewMatrix(bu, base) ==
    [ibin1 \in 0..Max(bu, 1) |->
        [ibin \in 0..Max(bu, 0) |-> base + ibin1 * Bins(bu, 0) + ibin + 1]]

\* lines 119 and 128-133 on one cell: the new thickness added, the entries
\* kept by setMaterial and then increased by addEntry
AddedTo(cell, newThickness) ==
    AddEntry(SetMaterial(cell, FloatAdd(cell.thickness, newThickness),
                         cell.entries))

\* thickness /= material->entries(), lines 160-161
AveragedThickness(cell) ==
    IF cell.thickness.num # 0 /\ cell.entries # 0
    THEN FloatDiv(cell.thickness, cell.entries)
    ELSE cell.thickness

\* lines 148-165 on one cell
AveragedCell(cell, kept) ==
    SetMaterial(cell, AveragedThickness(cell), DefaultedEntries(cell, kept))

\* the program is sequential: no averageMaterial() call is running
Idle == \A r \in Records : lmrPc[r] \notin {"outer", "inner"}

\* record r is constructed
Constructed(r) == lmrPc[r] \in {"default", "ready"}

\* LayerMaterialRecord(), lines 15-18
LayerMaterialRecordDefaultCtor(r) ==
    /\ Idle
    /\ lmrPc[r] = "none"
    /\ m_binUtility' = [m_binUtility EXCEPT ![r] = nullptr]
    /\ m_materialMatrix' = [m_materialMatrix EXCEPT ![r] = <<>>]
    /\ m_matStepsAndAssignedPos' = [m_matStepsAndAssignedPos EXCEPT ![r] = <<>>]
    /\ lmrPc' = [lmrPc EXCEPT ![r] = "default"]
    /\ UNCHANGED <<heap, entriesKept, lmrLoop, lmrObs>>
    /\ UNCHANGED callVars

\* LayerMaterialRecord(const BinUtility* binutility), lines 20-35
LayerMaterialRecordCtor(r) ==
    /\ Idle
    /\ lmrPc[r] = "none"
    /\ \E bu \in BinUtilitySet :
         /\ m_binUtility' = [m_binUtility EXCEPT ![r] = <<bu>>]
         /\ m_materialMatrix' =
               [m_materialMatrix EXCEPT ![r] = NewMatrix(bu, Len(heap))]
         /\ heap' = heap \o NewCells(bu)
         /\ lmrObs' = [lmrObs EXCEPT !.want = @ \o NewCells(bu)]
    /\ m_matStepsAndAssignedPos' = [m_matStepsAndAssignedPos EXCEPT ![r] = <<>>]
    /\ lmrPc' = [lmrPc EXCEPT ![r] = "ready"]
    /\ UNCHANGED <<entriesKept, lmrLoop>>
    /\ UNCHANGED callVars

\* LayerMaterialRecord(const LayerMaterialRecord& lmrecord), lines 37-43:
\* the vector of pointers is copied, the cells are shared with lmrecord
LayerMaterialRecordCopyCtor(r, lmrecord) ==
    /\ Idle
    /\ lmrPc[r] = "none"
    /\ Constructed(lmrecord)
    /\ m_binUtility' = [m_binUtility EXCEPT ![r] = m_binUtility[lmrecord]]
    /\ m_materialMatrix' =
          [m_materialMatrix EXCEPT ![r] = m_materialMatrix[lmrecord]]
    /\ m_matStepsAndAssignedPos' =
          [m_matStepsAndAssignedPos EXCEPT ![r] = m_matStepsAndAssignedPos[lmrecord]]
    /\ lmrPc' = [lmrPc EXCEPT ![r] = lmrPc[lmrecord]]
    /\ UNCHANGED <<heap, entriesKept, lmrLoop, lmrObs>>
    /\ UNCHANGED callVars

\* clone(), lines 45-49: new LayerMaterialRecord(*this), r the new object
Clone(this, r) == LayerMaterialRecordCopyCtor(r, this)

\* operator=(const LayerMaterialRecord& lmrecord), lines 51-60
OperatorAssign(this, lmrecord) ==
    /\ Idle
    /\ Constructed(this)
    /\ Constructed(lmrecord)
    /\ IF this # lmrecord
       THEN /\ m_binUtility' = [m_binUtility EXCEPT ![this] = m_binUtility[lmrecord]]
            /\ m_materialMatrix' =
                  [m_materialMatrix EXCEPT ![this] = m_materialMatrix[lmrecord]]
            /\ m_matStepsAndAssignedPos' =
                  [m_matStepsAndAssignedPos EXCEPT ![this] = <<>>]
            /\ lmrPc' = [lmrPc EXCEPT ![this] = lmrPc[lmrecord]]
       ELSE UNCHANGED <<m_binUtility, m_materialMatrix, m_matStepsAndAssignedPos,
                        lmrPc>>
    /\ UNCHANGED <<heap, entriesKept, lmrLoop, lmrObs>>
    /\ UNCHANGED callVars

\* addLayerMaterialProperties(pos, layerMaterialSteps), lines 62-134; the
\* at() of line 102 throws std::out_of_range before anything is written
AddLayerMaterialProperties(r) ==
    /\ Idle
    /\ lmrPc[r] = "ready"
    /\ lmrObs.adds < MaxAdds
    /\ \E pos \in Positions, steps \in StepsSet, bin2 \in Bin2Values :
         LET bin0 == Bin(m_binUtility[r][1], pos, 0)
             bin1 == Bin(m_binUtility[r][1], pos, 1)
             newThickness == NewThickness(steps)
             matrix == m_materialMatrix[r]
             asked == [lmrObs EXCEPT
                          !.adds = @ + 1,
                          !.want[matrix[bin1][bin0]] = AddedTo(@, newThickness)]
         IN  IF /\ bin2 \in DOMAIN matrix
                /\ bin1 \in DOMAIN matrix[bin2]
             THEN /\ heap' = [heap EXCEPT
                                 ![matrix[bin2][bin1]] = AddedTo(@, newThickness)]
                  /\ lmrObs' = asked
             ELSE /\ lmrObs' = [asked EXCEPT !.thrown = @ + 1]
                  /\ UNCHANGED heap
    /\ UNCHANGED <<m_binUtility, m_materialMatrix, m_matStepsAndAssignedPos,
                   entriesKept, lmrPc, lmrLoop>>
    /\ UNCHANGED callVars

\* averageMaterial(), lines 140-143: bins0, bins1 and size_t bin0 = 0
AverageMaterialBegin(r) ==
    /\ Idle
    /\ lmrPc[r] = "ready"
    /\ lmrObs.averages < MaxAverages
    /\ lmrPc' = [lmrPc EXCEPT ![r] = "outer"]
    /\ lmrLoop' = [bins0 |-> Bins(m_binUtility[r][1], 0),
                   bins1 |-> Bins(m_binUtility[r][1], 1),
                   bin0 |-> 0, bin1 |-> 0, done |-> FALSE]
    /\ lmrObs' = [lmrObs EXCEPT !.averages = @ + 1, !.visits = <<>>]
    /\ UNCHANGED <<m_binUtility, m_materialMatrix, m_matStepsAndAssignedPos, heap,
                   entriesKept>>
    /\ UNCHANGED callVars

\* averageMaterial(), line 143: bin0 < bins0, then size_t bin1 = 0 of line
\* 144, or the end of the function
AverageMaterialOuter(r) ==
    /\ lmrPc[r] = "outer"
    /\ IF lmrLoop.bin0 < lmrLoop.bins0
       THEN /\ lmrPc' = [lmrPc EXCEPT ![r] = "inner"]
            /\ lmrLoop' = [lmrLoop EXCEPT !.bin1 = 0]
       ELSE /\ lmrPc' = [lmrPc EXCEPT ![r] = "ready"]
            /\ lmrLoop' = [lmrLoop EXCEPT !.done = TRUE]
    /\ UNCHANGED <<m_binUtility, m_materialMatrix, m_matStepsAndAssignedPos,
                   heap, entriesKept, lmrObs>>
    /\ UNCHANGED callVars

\* averageMaterial(), lines 144-166: bin1 < bins1 and the body with bin1++,
\* or bin0++ of line 143
AverageMaterialInner(r) ==
    /\ lmrPc[r] = "inner"
    /\ IF lmrLoop.bin1 < lmrLoop.bins1
       THEN LET bin0 == lmrLoop.bin0
                bin1 == lmrLoop.bin1
                matrix == m_materialMatrix[r]
            IN  IF /\ bin1 \in DOMAIN matrix
                   /\ bin0 \in DOMAIN matrix[bin1]
                THEN /\ heap' = [heap EXCEPT ![matrix[bin1][bin0]] =
                                    AveragedCell(@, entriesKept)]
                     /\ lmrObs' = [lmrObs EXCEPT
                                      !.want[matrix[bin1][bin0]] =
                                          AveragedCell(@, entriesKept),
                                      !.visits = Append(@, <<bin1, bin0>>)]
                     /\ lmrLoop' = [lmrLoop EXCEPT !.bin1 = @ + 1]
                     /\ UNCHANGED lmrPc
                ELSE /\ lmrObs' = [lmrObs EXCEPT !.thrown = @ + 1]
                     /\ lmrPc' = [lmrPc EXCEPT ![r] = "ready"]
                     /\ UNCHANGED <<heap, lmrLoop>>
       ELSE /\ lmrLoop' = [lmrLoop EXCEPT !.bin0 = @ + 1]
            /\ lmrPc' = [lmrPc EXCEPT ![r] = "outer"]
            /\ UNCHANGED <<heap, lmrObs>>
    /\ UNCHANGED <<m_binUtility, m_materialMatrix, m_matStepsAndAssignedPos,
                   entriesKept>>
    /\ UNCHANGED callVars

\* the records on their own: no propagation call is in flight; the default
\* of the entries argument of MaterialProperties::setMaterial is one of the
\* two the header can declare, the same for the whole run
InitMaterial ==
    /\ call = <<>>
    /\ pc = <<>>
    /\ result = <<>>
    /\ cache = <<>>
    /\ aborters = <<>>
    /\ ret = <<>>
    /\ obs = <<>>
    /\ NoRecords
    /\ entriesKept \in BOOLEAN

NextMaterial ==
    \/ \E r \in Records : LayerMaterialRecordDefaultCtor(r)
    \/ \E r \in Records : LayerMaterialRecordCtor(r)
    \/ \E r, lmrecord \in Records : LayerMaterialRecordCopyCtor(r, lmrecord)
    \/ \E this, r \in Records : Clone(this, r)
    \/ \E this, lmrecord \in Records : OperatorAssign(this, lmrecord)
    \/ \E r \in Records : AddLayerMaterialProperties(r)
    \/ \E r \in Records : AverageMaterialBegin(r)
    \/ \E r \in Records : AverageMaterialOuter(r)
    \/ \E r \in Records : AverageMaterialInner(r)

\* records are constructed, copied, assigned, filled by
\* addLayerMaterialProperties() calls and averaged
SpecMaterial == InitMaterial /\ [][NextMaterial]_vars

----------------------------------------------------------------------------
(* Properties *)

Returned(c) == pc[c] = "returned"

\* the check of the internal aborters before the first step was made and
\* did not fire / did fire
PreCheckPassed(c) == pc[c] \notin {"entry", "precheck"} /\ obs[c].ended # "precheck"
PreCheckFired(c) == obs[c].ended = "precheck"

\* the loop ended through the break of the abort branch
Broke(c) == obs[c].ended \in {"user", "internal"}

StepCalls(c) == Count(obs[c].events, "step")
ActionCalls(c) == Count(obs[c].events, "action")
UserAbortCalls(c) == Count(obs[c].events, "user_abort")
ConvertCalls(c) == Count(obs[c].events, "convert")

\* C1 (as claimed): the Result returned by propagate() never has status
\* IN_PROGRESS, also when the internal aborters fire before the first step.
C1_NeverInProgress ==
    \A c \in Calls : Returned(c) => result[c].status # "IN_PROGRESS"

\* C2 (as claimed): when the pre-loop check did not fire, result.steps at
\* return is the number of step() invocations plus one if the loop ended
\* through a break.
C2_StepsPlusOneOnBreak ==
    \A c \in Calls :
        Returned(c) /\ PreCheckPassed(c) =>
            result[c].steps = StepCalls(c) + (IF Broke(c) THEN 1 ELSE 0)

\* C2 (amended): when the pre-loop check did not fire, result.steps at return
\* is exactly the number of step() invocations, whether the loop ended
\* through a break or by exhausting max_steps.
C2_StepsEqualStepCalls ==
    \A c \in Calls :
        Returned(c) /\ PreCheckPassed(c) => result[c].steps = StepCalls(c)

C2_Witness ==
    \E c \in Calls :
        Returned(c) /\ Broke(c) /\ result[c].steps = 2 /\ StepCalls(c) = 2

\* C3: the action list is invoked exactly once per executed step (never
\* without a step, also on the aborting step), so at return the number of
\* invocations, and the count a counting action keeps, equal result.steps.
C3_ActionsOncePerStep ==
    \A c \in Calls :
        /\ ActionCalls(c) = (IF pc[c] = "actions" THEN StepCalls(c) - 1
                             ELSE StepCalls(c))
        /\ Returned(c) =>
              /\ ActionCalls(c) = result[c].steps
              /\ call[c].with_actions => result[c].ext = result[c].steps

C3_Witness ==
    \E c \in Calls :
        /\ Returned(c) /\ Broke(c) /\ call[c].with_actions
        /\ result[c].ext = 2 /\ result[c].steps = 2

\* C4: result.steps <= max_steps + 1 in every state of the loop and in the
\* returned Result.
C4_BoundRespected ==
    \A c \in Calls : result[c].steps <= call[c].options.max_steps + 1

C4_Witness ==
    \E c \in Calls :
        /\ Returned(c) /\ Broke(c)
        /\ call[c].options.max_steps = 2
        /\ result[c].steps = call[c].options.max_steps

\* C5: in a returned Result the final state is present iff status is
\* SUCCESS, and operator bool is true iff status is SUCCESS.
C5_ValidIffSuccess ==
    \A c \in Calls :
        Returned(c) =>
            /\ (result[c].endParameters # nullptr) <=> (result[c].status = "SUCCESS")
            /\ OperatorBool(result[c]) <=> (result[c].status = "SUCCESS")

C5_Witness ==
    \E c \in Calls :
        Returned(c) /\ result[c].status = "SUCCESS" /\ OperatorBool(result[c])

\* the output state the stepper converts call c's current cache into
Conversion(c) ==
    IF call[c].overload = "target"
    THEN ImplConvertTo(cache[c], call[c].target)
    ELSE ImplConvert(cache[c])

\* C6: whenever the pre-loop check does not fire, the call returns status
\* SUCCESS with the converted final state, however the loop ended (max_steps,
\* path limit, target reached, user aborter).
C6_SuccessUnlessPreCheck ==
    \A c \in Calls :
        Returned(c) /\ PreCheckPassed(c) =>
            /\ result[c].status = "SUCCESS"
            /\ result[c].endParameters = <<Conversion(c)>>
            /\ obs[c].ended \in {"max_steps", "user", "internal"}

C6_Witness ==
    \E c \in Calls :
        /\ Returned(c) /\ obs[c].ended = "user"
        /\ result[c].status = "SUCCESS" /\ result[c].endParameters # nullptr

\* the other ways the loop ends, each with a SUCCESS result
C6_ByMaxSteps ==
    \E c \in Calls :
        Returned(c) /\ obs[c].ended = "max_steps" /\ result[c].status = "SUCCESS"
C6_ByPathLimit ==
    \E c \in Calls :
        /\ Returned(c) /\ obs[c].ended = "internal" /\ result[c].status = "SUCCESS"
        /\ PathLimitReached(aborters[c], result[c])
        /\ ~(aborters[c].has_target /\ SurfaceReached(aborters[c], cache[c]))
C6_ByTarget ==
    \E c \in Calls :
        /\ Returned(c) /\ obs[c].ended = "internal" /\ result[c].status = "SUCCESS"
        /\ aborters[c].has_target /\ SurfaceReached(aborters[c], cache[c])
        /\ ~PathLimitReached(aborters[c], result[c])

\* C7 (as claimed): when the internal aborters fire on the start state, the
\* returned Result has status FAILURE and no final state.
C7_FailureOnPreCheck ==
    \A c \in Calls :
        Returned(c) /\ PreCheckFired(c) =>
            result[c].status = "FAILURE" /\ result[c].endParameters = nullptr

\* C8: at every point of the call result.pathLength is the sum of the values
\* the step() invocations returned so far (0 before the first step).
C8_PathIsSumOfSteps ==
    \A c \in Calls : result[c].pathLength = SumSeq(obs[c].stepLog)

C8_Witness ==
    \E c \in Calls :
        /\ Returned(c) /\ Len(obs[c].stepLog) = 3
        /\ \E i, j \in 1..3 : obs[c].stepLog[i] < 0 /\ obs[c].stepLog[j] > 1
        /\ result[c].pathLength = SumSeq(obs[c].stepLog)

\* the signed limit and the remaining distance to it that C9 talks about
ClaimedLimit(c) == Abs(call[c].options.max_path_length) * call[c].options.direction
Remaining(c) == Abs(ClaimedLimit(c) - result[c].pathLength)
Exceeded(c) == Abs(result[c].pathLength) > Abs(ClaimedLimit(c))

\* C9: forward and backward, the path-limit aborter as propagate() configures
\* it is true when the remaining distance to the signed limit
\* |max_path_length| * direction is exactly target_tolerance or the limit is
\* exceeded in magnitude, and false when the remaining distance is
\* target_tolerance plus one unit (the limit not exceeded); the loop of an
\* untargeted call goes on or breaks accordingly.
C9_ToleranceBoundary ==
    \A c \in Calls :
        pc[c] # "entry" =>
            /\ (Remaining(c) = call[c].options.target_tolerance \/ Exceeded(c))
                   => PathLimitReached(aborters[c], result[c])
            /\ (Remaining(c) = call[c].options.target_tolerance + 1 /\ ~Exceeded(c))
                   => ~PathLimitReached(aborters[c], result[c])
            /\ (pc[c] = "increment" /\ call[c].overload = "plain")
                   => ~(Remaining(c) = call[c].options.target_tolerance \/ Exceeded(c))
            /\ (pc[c] = "break" /\ obs[c].ended = "internal" /\ call[c].overload = "plain")
                   => ~(Remaining(c) = call[c].options.target_tolerance + 1 /\ ~Exceeded(c))

C9_Witness ==
    \E c \in Calls :
        /\ call[c].options.direction = backward
        /\ pc[c] = "break" /\ obs[c].ended = "internal" /\ call[c].overload = "plain"
        /\ Remaining(c) = call[c].options.target_tolerance
        /\ result[c].pathLength < 0

\* the boundary's other side: one unit more than the tolerance remains, backward
C9_JustOutside ==
    \E c \in Calls :
        /\ call[c].options.direction = backward
        /\ pc[c] = "increment" /\ call[c].overload = "plain"
        /\ Remaining(c) = call[c].options.target_tolerance + 1

\* C10: with max_steps = 0 and the pre-loop check not firing, no step, action
\* or user aborter is invoked, steps and pathLength stay 0, the untouched
\* initial cache is converted and the status is SUCCESS.
C10_ZeroMaxSteps ==
    \A c \in Calls :
        call[c].options.max_steps = 0 /\ PreCheckPassed(c) =>
            /\ StepCalls(c) = 0 /\ ActionCalls(c) = 0 /\ UserAbortCalls(c) = 0
            /\ result[c].steps = 0 /\ result[c].pathLength = 0
            /\ cache[c] = CacheCtor(call[c].options.direction
                                      * call[c].options.max_step_size)
            /\ Returned(c) =>
                  /\ ConvertCalls(c) = 1
                  /\ result[c].endParameters = <<Conversion(c)>>
                  /\ result[c].status = "SUCCESS"

C10_Witness ==
    \E c \in Calls :
        /\ Returned(c) /\ call[c].options.max_steps = 0 /\ PreCheckPassed(c)
        /\ result[c].status = "SUCCESS" /\ result[c].steps = 0

\* the first step k (up to one past the model's largest max_steps) at which
\* k * L is within tol of the limit magnitude P or beyond it; 0 if there is none
FirstLimitStep(L, P, tol) ==
    LET hits == {k \in 1..(MaxSteps + 1) : Abs(P - k * L) <= tol \/ k * L > P}
    IN  IF hits = {} THEN 0 ELSE CHOOSE k \in hits : \A j \in hits : k <= j

\* call c runs a stepper of fixed length, without user aborters, and has
\* returned
FixedLengthCall(c) ==
    /\ Returned(c)
    /\ call[c].impl.fixedLen > 0
    /\ ~call[c].options.user_aborters

\* call c of the untargeted overload runs a stepper of fixed length, without
\* user aborters, passed the pre-loop check and has returned
FixedLengthRun(c) ==
    /\ FixedLengthCall(c)
    /\ PreCheckPassed(c)
    /\ call[c].overload = "plain"

\* C11 (as claimed): fixed step length L, no user aborters, path limit P and
\* max_steps large enough: the loop breaks on the first step k at which k*L is
\* within tolerance of P or beyond it, with steps == k, pathLength ==
\* k*L*direction and status SUCCESS; in particular P = 2.5 L gives steps == 3.
C11_LimitStepAndScenarioB ==
    \A c \in Calls :
        LET o == call[c].options
            L == call[c].impl.fixedLen
            P == Abs(o.max_path_length)
            k == FirstLimitStep(L, P, o.target_tolerance)
        IN  FixedLengthCall(c) =>
              /\ (k > 0 /\ o.max_steps >= k) =>
                    /\ obs[c].ended = "internal"
                    /\ result[c].steps = k
                    /\ result[c].pathLength = k * L * o.direction
                    /\ result[c].status = "SUCCESS"
              /\ (2 * P = 5 * L /\ o.max_steps >= 3) => result[c].steps = 3

\* C11 (amended): in an untargeted call that passes the pre-loop check, the
\* loop breaks on the first step k at which k*L is within tolerance of P or
\* beyond it, with steps == k, pathLength == k*L*direction and status SUCCESS;
\* with P = 2.5 L that step is the third only for a tolerance below L/2, the
\* second for a tolerance from L/2 up to (not including) 1.5 L, and the first
\* for a tolerance from 1.5 L up (from 2.5 L up the pre-loop check fires).
C11_LimitStep ==
    \A c \in Calls :
        LET o == call[c].options
            L == call[c].impl.fixedLen
            P == Abs(o.max_path_length)
            tol == o.target_tolerance
            k == FirstLimitStep(L, P, tol)
        IN  FixedLengthRun(c) =>
              /\ (k > 0 /\ o.max_steps >= k) =>
                    /\ obs[c].ended = "internal"
                    /\ result[c].steps = k
                    /\ result[c].pathLength = k * L * o.direction
                    /\ result[c].status = "SUCCESS"
              /\ (2 * P = 5 * L /\ o.max_steps >= 3) =>
                    /\ 2 * tol < L => result[c].steps = 3
                    /\ (L <= 2 * tol /\ 2 * tol < 3 * L) => result[c].steps = 2
                    /\ 3 * L <= 2 * tol => result[c].steps = 1
                    /\ 2 * tol < 5 * L

C11_Witness ==
    \E c \in Calls :
        /\ FixedLengthRun(c)
        /\ call[c].impl.fixedLen = 4 /\ call[c].options.max_path_length = 10
        /\ call[c].options.target_tolerance = 1
        /\ call[c].options.direction = backward
        /\ result[c].steps = 3 /\ result[c].pathLength = -12
        /\ obs[c].ended = "internal"

\* P = 2.5 L with a tolerance of 1.5 L: the first step ends the loop
C11_FirstStepEnds ==
    \E c \in Calls :
        /\ FixedLengthRun(c)
        /\ call[c].impl.fixedLen = 2 /\ call[c].options.max_path_length = 5
        /\ call[c].options.target_tolerance = 3
        /\ call[c].options.max_steps = 3
        /\ result[c].steps = 1 /\ obs[c].ended = "internal"

\* P = 2.5 L with a tolerance of 3 L / 4: the second step ends the loop
C11_SecondStepEnds ==
    \E c \in Calls :
        /\ FixedLengthRun(c)
        /\ call[c].impl.fixedLen = 4 /\ call[c].options.max_path_length = 10
        /\ call[c].options.target_tolerance = 3
        /\ call[c].options.max_steps = 3
        /\ result[c].steps = 2 /\ obs[c].ended = "internal"

\* C12: when no user aborter and no internal aborter ever returns true, the
\* loop performs exactly max_steps steps: steps == N, and with a stepper of
\* fixed signed advance L * direction pathLength == N * L * direction, status
\* SUCCESS.
C12_ExactlyMaxSteps ==
    \A c \in Calls :
        LET N == call[c].options.max_steps
        IN  Returned(c) /\ obs[c].ended = "max_steps" =>
              /\ result[c].steps = N
              /\ StepCalls(c) = N
              /\ call[c].impl.fixedLen > 0 =>
                    result[c].pathLength
                        = N * call[c].impl.fixedLen * call[c].options.direction
              /\ result[c].status = "SUCCESS"

C12_Witness ==
    \E c \in Calls :
        /\ Returned(c) /\ obs[c].ended = "max_steps"
        /\ call[c].options.max_steps = 3 /\ call[c].impl.fixedLen = 2
        /\ ~call[c].options.user_aborters
        /\ result[c].steps = 3 /\ result[c].pathLength = 6
        /\ result[c].status = "SUCCESS"

\* the states of call c's cache at which the aborters were evaluated so far:
\* the start and the state after every step
CacheStates(c) ==
    {[pos |-> SumSeq(SubSeq(obs[c].stepLog, 1, k))] :
        k \in 0..Len(obs[c].stepLog)}

\* the surface-reached predicate of targeted call c was true at a state of
\* its cache
SurfaceEverReached(c) ==
    \E ch \in CacheStates(c) : SurfaceReached(aborters[c], ch)

\* targeted call c has returned and its surface-reached predicate never
\* became true
UnreachedTargetRun(c) ==
    /\ Returned(c)
    /\ call[c].overload = "target"
    /\ ~SurfaceEverReached(c)

\* C13 (as claimed): in a targeted call whose surface-reached predicate never
\* becomes true, the call ends through the path-limit aborter or the
\* max_steps bound, and the returned Result is a converted one with status
\* SUCCESS, the same status as when the target was reached.
C13_UnreachedIsConvertedSuccess ==
    \A c \in Calls :
        UnreachedTargetRun(c) =>
            /\ \/ obs[c].ended = "max_steps"
               \/ /\ obs[c].ended \in {"internal", "precheck"}
                  /\ PathLimitReached(aborters[c], result[c])
            /\ result[c].status = "SUCCESS"
            /\ result[c].endParameters
                   = <<ImplConvertTo(cache[c], call[c].target)>>

\* C13 (amended): in a targeted call whose surface-reached predicate never
\* becomes true, the call ends through the path-limit aborter, the max_steps
\* bound or a user aborter; unless the path-limit aborter fired in the
\* pre-loop check, the returned Result is a converted one with status
\* SUCCESS, the same status as when the target was reached; when it fired in
\* the pre-loop check the Result is unconverted and its status is not SUCCESS.
C13_UnreachedTargetIsSuccess ==
    \A c \in Calls :
        /\ UnreachedTargetRun(c) =>
            /\ \/ obs[c].ended = "max_steps"
               \/ obs[c].ended = "user" /\ call[c].options.user_aborters
               \/ /\ obs[c].ended \in {"internal", "precheck"}
                  /\ PathLimitReached(aborters[c], result[c])
            /\ PreCheckPassed(c) =>
                  /\ result[c].status = "SUCCESS"
                  /\ result[c].endParameters
                         = <<ImplConvertTo(cache[c], call[c].target)>>
            /\ PreCheckFired(c) =>
                  /\ result[c].status # "SUCCESS"
                  /\ result[c].endParameters = nullptr
        /\ (Returned(c) /\ call[c].overload = "target" /\ SurfaceEverReached(c)
                /\ PreCheckPassed(c)) =>
              result[c].status = "SUCCESS"

C13_Witness ==
    \E c \in Calls :
        /\ UnreachedTargetRun(c)
        /\ ~call[c].options.user_aborters
        /\ StepCalls(c) = 2
        /\ obs[c].ended = "internal"
        /\ PathLimitReached(aborters[c], result[c])
        /\ result[c].status = "SUCCESS"

\* the target is never reached and the path-limit aborter fires in the
\* pre-loop check: target 3, tolerance 1, max_path_length 1
C13_PreCheckUnreached ==
    \E c \in Calls :
        /\ UnreachedTargetRun(c) /\ PreCheckFired(c)
        /\ call[c].target = 3 /\ call[c].options.target_tolerance = 1
        /\ call[c].options.max_path_length = 1
        /\ result[c].status = "IN_PROGRESS" /\ result[c].endParameters = nullptr

\* the target lies behind the start in the direction of travel and within
\* tolerance of it: not reached, the run ends by max_steps with SUCCESS
C13_TargetBehind ==
    \E c \in Calls :
        /\ UnreachedTargetRun(c)
        /\ call[c].target = -2 /\ call[c].options.direction = forward
        /\ call[c].options.target_tolerance = 3
        /\ obs[c].ended = "max_steps" /\ result[c].status = "SUCCESS"

\* the same status with the target reached and the path limit not
C13_TargetReached ==
    \E c \in Calls :
        /\ Returned(c) /\ call[c].overload = "target"
        /\ SurfaceReached(aborters[c], cache[c])
        /\ ~PathLimitReached(aborters[c], result[c])
        /\ obs[c].ended = "internal"
        /\ result[c].status = "SUCCESS"

\* the Result call c returns when it runs alone, given its arguments and what
\* its own collaborators returned (its step lengths, what ended its loop)
AloneResult(c) ==
    LET steps == Len(obs[c].stepLog)
        failed == obs[c].ended = "precheck"
        final == [pos |-> SumSeq(obs[c].stepLog),
                  step_size |-> cache[c].step_size]
    IN  [endParameters |->
             IF failed THEN nullptr
             ELSE IF call[c].overload = "target"
                  THEN <<ImplConvertTo(final, call[c].target)>>
                  ELSE <<ImplConvert(final)>>,
         status |-> IF failed THEN "IN_PROGRESS" ELSE "SUCCESS",
         steps |-> steps,
         pathLength |-> SumSeq(obs[c].stepLog),
         ext |-> IF call[c].with_actions THEN steps ELSE 0]

\* a step of the system changes the state of one call only, and no Options
OwnStateOnly ==
    /\ call' = call
    /\ \E c \in Calls :
         \A d \in Calls \ {c} :
            /\ pc'[d] = pc[d] /\ result'[d] = result[d] /\ cache'[d] = cache[d]
            /\ aborters'[d] = aborters[d] /\ ret'[d] = ret[d] /\ obs'[d] = obs[d]

\* C14: in any interleaving of concurrent propagate() calls on one
\* Propagator every statement reads and writes only its own call's cache and
\* Result (and no Options), and each call returns the Result it returns when
\* run alone.
C14_CallsIsolated ==
    /\ [][OwnStateOnly]_vars
    /\ [](\A c \in Calls : Returned(c) => result[c] = AloneResult(c))

\* a single call returns AloneResult
C14_AloneReference ==
    \A c \in Calls : Returned(c) => result[c] = AloneResult(c)

\* both calls returned after their loops ran interleaved, with different results
C14_Witness ==
    /\ Calls = {1, 2}
    /\ Returned(1) /\ Returned(2)
    /\ Len(obs[1].stepLog) = 1 /\ Len(obs[2].stepLog) = 1
    /\ cache[1].pos # cache[2].pos
    /\ result[1].status = "SUCCESS" /\ result[2].status = "SUCCESS"
    /\ result[1].pathLength # result[2].pathLength

\* the events that may directly precede an event of each kind
MayPrecede(ev) ==
    CASE ev = "step" -> {"internal"}
      [] ev = "action" -> {"step"}
      [] ev = "user_abort" -> {"action"}
      [] ev = "internal" -> {"user_abort"}
      [] ev = "convert" -> {"internal", "user_abort"}

\* the last event of call c's log ("" when there is none)
LastEvent(c) ==
    IF obs[c].events = <<>> THEN "" ELSE obs[c].events[Len(obs[c].events)]

\* C15: in every iteration the events come in the order step(), action list,
\* user abort list, internal aborters (the internal aborters after the user
\* abort list), and the step counter is incremented only after these
\* evaluations.
C15_IterationOrder ==
    \A c \in Calls :
        LET ev == obs[c].events
        IN  /\ ev # <<>> => ev[1] = "internal"
            /\ \A i \in 2..Len(ev) : ev[i - 1] \in MayPrecede(ev[i])
            /\ pc[c] \in {"actions", "user_abort", "internal_abort",
                          "break", "increment"}
                  => result[c].steps = StepCalls(c) - 1
            /\ pc[c] \in {"loop", "step", "after", "converted", "returned"}
                  => result[c].steps = StepCalls(c)

C15_Witness ==
    \E c \in Calls :
        /\ Returned(c)
        /\ obs[c].events = <<"internal", "step", "action", "user_abort", "internal",
                             "step", "action", "user_abort", "internal", "convert">>
        /\ result[c].steps = 2

\* on this step the user abort list returned true and the internal aborters
\* hold too
BothWouldFire(c) ==
    /\ pc[c] = "break" /\ obs[c].ended = "user"
    /\ InternalStopConditions(aborters[c], result[c], cache[c])

\* C16 (as claimed): on a step where both a user aborter and an internal
\* aborter would fire, both lists are evaluated on that step.
C16_BothEvaluated ==
    \A c \in Calls :
        BothWouldFire(c) =>
            /\ LastEvent(c) = "internal"
            /\ UserAbortCalls(c) = StepCalls(c)

\* C16 (amended): the user abort list is evaluated first; when it returns
\* true the internal aborters are not evaluated on that step (short-circuit
\* ||), when it returns false they are; either one being true ends the loop.
C16_ShortCircuit ==
    \A c \in Calls :
        /\ pc[c] = "break" /\ obs[c].ended = "user" =>
              /\ LastEvent(c) = "user_abort"
              /\ Count(obs[c].events, "internal") = StepCalls(c)
        /\ pc[c] = "break" /\ obs[c].ended = "internal" =>
              /\ LastEvent(c) = "internal"
              /\ Count(obs[c].events, "internal") = StepCalls(c) + 1
              /\ InternalStopConditions(aborters[c], result[c], cache[c])
        /\ pc[c] = "increment" =>
              /\ obs[c].ended = "running"
              /\ LastEvent(c) = "internal"
              /\ ~InternalStopConditions(aborters[c], result[c], cache[c])
        /\ pc[c] \in {"break", "increment", "internal_abort"}
              => UserAbortCalls(c) = StepCalls(c)

C16_Witness ==
    \E c \in Calls : BothWouldFire(c) /\ LastEvent(c) = "user_abort"

\* C17: when the pre-loop check of the internal aborters returns true,
\* propagate_ returns at once: no step(), action, user aborter or convert() is
\* invoked, and steps, pathLength and endParameters keep their initial values.
C17_NothingAfterFailedPreCheck ==
    \A c \in Calls :
        PreCheckFired(c) =>
            /\ obs[c].events = <<"internal">>
            /\ StepCalls(c) = 0 /\ ActionCalls(c) = 0
            /\ UserAbortCalls(c) = 0 /\ ConvertCalls(c) = 0
            /\ result[c].steps = 0 /\ result[c].pathLength = 0
            /\ result[c].endParameters = nullptr
            /\ cache[c] = CacheCtor(call[c].options.direction
                                      * call[c].options.max_step_size)
            /\ pc[c] \in {"after", "returned"}

C17_Witness ==
    \E c \in Calls :
        /\ Returned(c) /\ PreCheckFired(c)
        /\ call[c].options.max_steps = 3
        /\ result[c].steps = 0 /\ result[c].endParameters = nullptr

\* C18: both overloads configure the path-limit aborter with
\* signed_path_limit = |max_path_length| * direction and tolerance =
\* target_tolerance, so the limit has the sign of the direction also for a
\* negative max_path_length, and a backward call against a positive limit
\* magnitude is ended by the path limit: its loop only goes on while the
\* (negative) path length is more than the tolerance short of the limit.
C18_SignedLimit ==
    \A c \in Calls :
        LET o == call[c].options
            ab == aborters[c]
        IN  pc[c] # "entry" =>
              /\ ab.signed_path_limit = Abs(o.max_path_length) * o.direction
              /\ ab.path_tolerance = o.target_tolerance
              /\ ab.signed_path_limit * o.direction > 0
              /\ (o.direction = backward) = (ab.signed_path_limit < 0)
              /\ pc[c] = "increment" =>
                    /\ Abs(result[c].pathLength) <= Abs(o.max_path_length)
                    /\ Abs(o.max_path_length) * o.direction - result[c].pathLength
                           \notin (-o.target_tolerance)..o.target_tolerance

C18_Witness ==
    \E c \in Calls :
        /\ Returned(c) /\ call[c].overload = "target"
        /\ call[c].options.direction = backward
        /\ call[c].options.max_path_length = 3
        /\ aborters[c].signed_path_limit = -3
        /\ obs[c].ended = "internal"
        /\ result[c].pathLength = -2
        /\ ~SurfaceReached(aborters[c], cache[c])

\* a negative max_path_length with forward direction gives a positive limit
C18_NegativeLength ==
    \E c \in Calls :
        /\ Returned(c) /\ call[c].options.direction = forward
        /\ call[c].options.max_path_length = -3
        /\ aborters[c].signed_path_limit = 3
        /\ obs[c].ended = "internal" /\ result[c].pathLength = 2

\* C19: every propagate() call terminates: step() is invoked at most
\* max_steps times, result.steps never exceeds max_steps, and the call
\* returns, also when no aborter ever returns true.
C19_Terminates ==
    /\ [](\A c \in Calls :
            /\ StepCalls(c) <= call[c].options.max_steps
            /\ result[c].steps <= call[c].options.max_steps)
    /\ <>(\A c \in Calls : Returned(c))

\* a call returned after max_steps steps on which no aborter returned true
C19_Witness ==
    \E c \in Calls :
        /\ Returned(c) /\ obs[c].ended = "max_steps"
        /\ call[c].options.max_steps = 3 /\ StepCalls(c) = 3
        /\ result[c].steps = 3

\* the output state the right convert overload gives for call c's cache
RightConversion(c) ==
    [pos |-> cache[c].pos,
     bound |-> call[c].overload = "target",
     surface |-> IF call[c].overload = "target" THEN call[c].target ELSE 0]

\* C20: a call that passes the pre-loop check invokes convert exactly once,
\* after its last step, action and aborter evaluation and before status
\* becomes SUCCESS, with convert(cache) in the untargeted and
\* convert(cache, target) in the targeted call; a call that fails the
\* pre-loop check never converts.
C20_ConvertOnceAtEnd ==
    \A c \in Calls :
        LET ev == obs[c].events
        IN  /\ \A i \in DOMAIN ev : ev[i] = "convert" => i = Len(ev)
            /\ PreCheckFired(c) => ConvertCalls(c) = 0
            /\ pc[c] \in {"converted", "returned"} /\ PreCheckPassed(c) =>
                  /\ ConvertCalls(c) = 1
                  /\ result[c].endParameters = <<RightConversion(c)>>
            /\ pc[c] = "converted" => result[c].status = "IN_PROGRESS"
            /\ result[c].status = "SUCCESS" =>
                  ConvertCalls(c) = 1 /\ Returned(c)
            /\ pc[c] \notin {"converted", "returned"} =>
                  ConvertCalls(c) = 0 /\ result[c].endParameters = nullptr

C20_Witness ==
    \E c \in Calls :
        /\ Returned(c) /\ call[c].overload = "target" /\ call[c].target = 3
        /\ StepCalls(c) = 2 /\ LastEvent(c) = "convert"
        /\ result[c].status = "SUCCESS"
        /\ result[c].endParameters = <<[pos |-> 2, bound |-> TRUE, surface |-> 3]>>

\* the conversion is stored and the status not yet SUCCESS
C20_ConvertedBeforeSuccess ==
    \E c \in Calls :
        /\ pc[c] = "converted" /\ result[c].status = "IN_PROGRESS"
        /\ result[c].endParameters # nullptr

\* C21: no Result returned by either propagate() overload has status UNSET or
\* WRONG_DIRECTION: from its construction in propagate() on, the Result's
\* status is IN_PROGRESS until the only assignment, which sets SUCCESS; the
\* status propagate_() returns is never stored in it.
C21_NoUnsetNoWrongDirection ==
    \A c \in Calls :
        /\ pc[c] # "entry" => result[c].status \in {"IN_PROGRESS", "SUCCESS"}
        /\ pc[c] \notin {"entry", "returned"} => result[c].status = "IN_PROGRESS"
        /\ Returned(c) => result[c].status \notin {"UNSET", "WRONG_DIRECTION"}

\* the targeted overload returned with the status of the constructor, after a
\* fired pre-loop check whose FAILURE was not stored
C21_Witness ==
    \E c \in Calls :
        /\ Returned(c) /\ call[c].overload = "target"
        /\ PreCheckFired(c) /\ result[c].status = "IN_PROGRESS"
        /\ ret[c] = "FAILURE"

\* the untargeted overload returned with the one status it assigns
C21_PlainSuccess ==
    \E c \in Calls :
        /\ Returned(c) /\ call[c].overload = "plain"
        /\ result[c].status = "SUCCESS" /\ StepCalls(c) = 2

\* record r's matrix has max(1)+1 rows of max(0)+1 pointers to cells
MatrixShape(r) ==
    /\ DOMAIN m_materialMatrix[r] = 0..Max(m_binUtility[r][1], 1)
    /\ \A bin1 \in DOMAIN m_materialMatrix[r] :
          /\ DOMAIN m_materialMatrix[r][bin1] = 0..Max(m_binUtility[r][1], 0)
          /\ \A bin0 \in DOMAIN m_materialMatrix[r][bin1] :
                m_materialMatrix[r][bin1][bin0] \in DOMAIN heap

\* averageMaterial() accessed cells [bin1][bin0] with bin1 < bins1 and
\* bin0 < bins0 only, none of them twice, and all of them once it has finished
VisitsOncePerCell ==
    LET v == lmrObs.visits
        cells == (0..(lmrLoop.bins1 - 1)) \X (0..(lmrLoop.bins0 - 1))
    IN  /\ \A i \in DOMAIN v : v[i] \in cells
        /\ \A i, j \in DOMAIN v : v[i] = v[j] => i = j
        /\ lmrLoop.done => {v[i] : i \in DOMAIN v} = cells

\* what the constructors and averageMaterial() do by themselves: the shape of
\* every matrix, zero-initialised cells, one visit per cell
ConstructorAndAverageConsistent ==
    /\ \A r \in Records : lmrPc[r] \notin {"none", "default"} => MatrixShape(r)
    /\ \A r \in Records : lmrPc[r] = "default" => m_materialMatrix[r] = <<>>
    /\ VisitsOncePerCell
    /\ lmrObs.adds = 0 /\ lmrObs.averages = 0 =>
          \A a \in DOMAIN heap : heap[a] = ZeroMaterial

\* C22 (as claimed): the record indexes its matrix as [bin along axis 1][bin
\* along axis 0] in all operations: the constructor makes max(1)+1 rows of
\* max(0)+1 zero cells, averageMaterial() visits each cell [bin1][bin0] once
\* and in bounds, and addLayerMaterialProperties(pos, steps) updates exactly
\* the cell [bin(pos,1)][bin(pos,0)], adding one entry to it and leaving
\* every other cell unchanged (so the cells are what they would be had every
\* add written that cell, and no access is out of range).
C22_ConsistentIndexing ==
    /\ \A r \in Records : lmrPc[r] \notin {"none", "default"} => MatrixShape(r)
    /\ VisitsOncePerCell
    /\ lmrObs.thrown = 0
    /\ heap = lmrObs.want

\* material asked for bin <<1, 0>> of a record with 2 x 2 bins is in a cell
\* of column 1
C22_WrongCell ==
    \E r \in Records :
        /\ lmrPc[r] = "ready" /\ lmrObs.thrown = 0 /\ lmrObs.adds = 1
        /\ m_binUtility[r] = <<[bins |-> [k \in Axes |-> 2]]>>
        /\ lmrObs.want[m_materialMatrix[r][1][0]].entries = 1
        /\ heap[m_materialMatrix[r][1][0]].entries = 0
        /\ \E bin2 \in DOMAIN m_materialMatrix[r] :
              heap[m_materialMatrix[r][bin2][1]].entries = 1

\* a record with more bins along axis 1 than along axis 0 threw
\* std::out_of_range for a position inside its bin utility
C22_OutOfRange ==
    \E r \in Records :
        /\ lmrPc[r] = "ready" /\ lmrObs.thrown = 1 /\ lmrObs.adds = 1
        /\ m_binUtility[r][1].bins[0] = 1 /\ m_binUtility[r][1].bins[1] = 2
        /\ lmrObs.want[m_materialMatrix[r][1][0]].entries = 1

\* a record was averaged after material was added to it: a cell holds a
\* thickness that is not whole
C22_Averaged ==
    /\ lmrLoop.done /\ lmrObs.adds = 2 /\ Len(lmrObs.visits) = 4
    /\ \E a \in DOMAIN heap : heap[a].thickness = Float(3, 2)

\* two records share their cells after a copy or operator=: material added
\* through one is in the other
C22_SharedCells ==
    /\ lmrPc[1] = "ready" /\ lmrPc[2] = "ready"
    /\ m_materialMatrix[1] = m_materialMatrix[2]
    /\ lmrObs.adds = 1
    /\ \E a \in DOMAIN heap : heap[a].entries = 1

====
